---- MODULE Spec2Model ----
(***************************************************************************)
(* Model of the goodwe inverter client: the per-device command engine of   *)
(* Inverter (_ensure_lock, _read_from_socket), the DT settings API and the *)
(* batch decode of a response (_map_response).                             *)
(***************************************************************************)
EXTENDS Integers, Sequences, FiniteSets, TLC

\* ------------------------------------------------------------------ bounds
NumDevices == 2
NumTasks == 3
NumLoops == 2
MaxRetries == 2
NumSettingTasks == 2
NumCallers == 2

Devices == 1..NumDevices
Tasks == 1..NumTasks
Loops == 1..NumLoops
None == 0
SettingTasks == 1..NumSettingTasks
Callers == 1..NumCallers

\* ------------------------------------------------------------------ state
VARIABLES
  retries,                     \* Inverter.retries, per device
  running_loop,                \* Inverter._running_loop, per device (None or a loop)
  lock,                        \* Inverter._lock, per device (None or a reference into locks)
  consecutive_failures_count,  \* Inverter._consecutive_failures_count, per device
  locks,                       \* the asyncio.Lock objects created so far: [locked, waiters]
  task,                        \* per task: position and locals of its coroutine
  pending,                     \* per device: the commands submitted and not yet completed,
                               \* in the order of their calls of _read_from_socket
  loops_used,                  \* per device: the event loops commands were issued under
  failures_since_success,      \* per device: failed commands since the last successful one
  map_response,                \* _map_response: the response, [data, pos (its cursor)]
  map_sensors,                 \* _map_response: the sensors tuple
  map_incl_xx,                 \* _map_response: the incl_xx flag
  map_index,                   \* _map_response: the position of the for loop
  map_result,                  \* _map_response: the result dictionary
  map_pc,                      \* _map_response: "idle", "loop", "done" or "error"
  codec_call,                  \* the last call of a codec function: [op, its arguments]
  codec_result,                \* what that call returned or raised
  sensor,                      \* a composite Sensor instance: [layout, attrs]
  held                         \* what the caller of its last successful read holds

mapvars == <<map_response, map_sensors, map_incl_xx, map_index, map_result, map_pc>>

enginevars == <<retries, running_loop, lock, consecutive_failures_count, locks, task,
                pending, loops_used, failures_since_success>>

instancevars == <<sensor, held>>

codecvars == <<codec_call, codec_result, instancevars>>

vars == <<enginevars, mapvars, codecvars>>

NoCommand == [kind |-> "none", count |-> 0, arg |-> << >>]

IdleTask == [pc |-> "idle", dev |-> None, loop |-> None, lck |-> None,
             attempts |-> 0, outcome |-> "none", carried |-> 0,
             op |-> "none", sid |-> "", cmd |-> NoCommand, value |-> << >>]

\* The retries the inverters are constructed with: every setting up to
\* MaxRetries occurs on some device
RetriesOf(d) == ((d - 1) % MaxRetries) + 1

\* Inverter.__init__
InverterInit ==
  /\ retries = [d \in Devices |-> RetriesOf(d)]
  /\ running_loop = [d \in Devices |-> None]
  /\ lock = [d \in Devices |-> None]
  /\ consecutive_failures_count = [d \in Devices |-> 0]

\* No command was issued yet
EngineInit ==
  /\ locks = << >>
  /\ task = [t \in Tasks |-> IdleTask]
  /\ pending = [d \in Devices |-> << >>]
  /\ loops_used = [d \in Devices |-> {}]
  /\ failures_since_success = [d \in Devices |-> 0]

\* No batch is being decoded
MapIdle ==
  /\ map_response = [data |-> << >>, pos |-> 0]
  /\ map_sensors = << >>
  /\ map_incl_xx = TRUE
  /\ map_index = 0
  /\ map_result = << >>
  /\ map_pc = "idle"

\* No codec function was called, no composite sensor is registered
CodecIdle ==
  /\ codec_call = [op |-> "none"]
  /\ codec_result = << >>
  /\ sensor = None
  /\ held = None

Init ==
  /\ InverterInit
  /\ EngineInit
  /\ MapIdle
  /\ CodecIdle

\* ------------------------------------------------------- bytes and codecs
Min(a, b) == IF a <= b THEN a ELSE b

\* ProtocolResponse.read(n) at cursor pos: the next n bytes, or those left
BufRead(data, pos, n) == SubSeq(data, pos + 1, Min(pos + n, Len(data)))

\* int.from_bytes(bs, byteorder="big", signed=False)
RECURSIVE FromBytes(_)
FromBytes(bs) ==
  IF bs = << >> THEN 0 ELSE FromBytes(SubSeq(bs, 1, Len(bs) - 1)) * 256 + bs[Len(bs)]

\* int.from_bytes(bs, byteorder="big", signed=True)
FromBytesSigned(bs) ==
  IF bs /= << >> /\ bs[1] >= 128 THEN FromBytes(<<bs[1] - 256>> \o Tail(bs))
  ELSE FromBytes(bs)

\* int.to_bytes(v, length=n, byteorder="big", signed=True); << >> stands for
\* the OverflowError of a value that does not fit (every integer of the model
\* fits 4 bytes)
RECURSIVE ToBytes(_, _)
ToBytes(v, n) == IF n = 0 THEN << >> ELSE Append(ToBytes(v \div 256, n - 1), v % 256)

ToBytesSigned(v, n) ==
  IF n < 4 /\ (v < -(128 * 256 ^ (n - 1)) \/ v >= 128 * 256 ^ (n - 1)) THEN << >>
  ELSE ToBytes(v, n)

\* read_byte at the cursor
read_byte(data, pos) == FromBytesSigned(BufRead(data, pos, 1))

\* read_bytes2 at the cursor
read_bytes2(data, pos) == FromBytesSigned(BufRead(data, pos, 2))

\* read_bytes4 at the cursor
read_bytes4(data, pos) == FromBytesSigned(BufRead(data, pos, 4))

Abs(n) == IF n < 0 THEN -n ELSE n

\* The number of binary digits of n >= 0
RECURSIVE BitLen(_)
BitLen(n) == IF n = 0 THEN 0 ELSE 1 + BitLen(n \div 2)

\* 2^e modulo n
RECURSIVE PowMod2(_, _)
PowMod2(e, n) == IF e = 0 THEN 1 % n ELSE (2 * PowMod2(e - 1, n)) % n

\* int(float(r) / s * s) in IEEE 754 double arithmetic, for a register value
\* r and a scale s. With a = |r|, the quotient is q = m * 2^-e, m the 53 bit
\* integer nearest to a * 2^e / s (ties to even); rem is the remainder of
\* a * 2^e by s and odd the parity of its quotient. The exact product q * s
\* is a - rem * 2^-e when the quotient was rounded down: it rounds to a
\* unless it lies more than half a spacing (2^u * 2^-e) below a, and then
\* int() truncates the product to a - 1
TruncatedProduct(r, s) ==
  IF r = 0 THEN 0
  ELSE LET a == Abs(r)
           A == BitLen(a)
           B == BitLen(s)
           j == IF a * 2 ^ B >= s * 2 ^ A THEN A - B ELSE A - B - 1
           e == 52 - j
           x == ((a % (2 * s)) * PowMod2(e, 2 * s)) % (2 * s)
           rem == x % s
           odd == x >= s
           up == 2 * rem > s \/ (2 * rem = s /\ odd)
           u == A + e - 53 - (IF a = 2 ^ (A - 1) THEN 1 ELSE 0)
           res == IF up \/ rem = 0 THEN a
                  ELSE IF 2 * rem <= 2 ^ u THEN a ELSE a - 1
       IN IF r > 0 THEN res ELSE -res

\* The scale of the codecs that divide the register value
ScaleOf(class) ==
  CASE class \in {"Voltage", "Current", "Decimal10"} -> 10
    [] class = "Decimal100" -> 100

ScaledClasses == {"Voltage", "Current", "Decimal10", "Decimal100"}

\* int(value * scale) for a value that is an int <<n>> or the float
\* <<n, scale>>, which stands for float(n) / scale
ScaledInt(v, scale) ==
  IF Len(v) = 1 THEN v[1] * scale ELSE TruncatedProduct(v[1], scale)

IsLeap(y) == y % 4 = 0 /\ (y % 100 /= 0 \/ y % 400 = 0)

DaysInMonth(y, m) ==
  IF m = 2 THEN (IF IsLeap(y) THEN 29 ELSE 28)
  ELSE IF m \in {4, 6, 9, 11} THEN 30 ELSE 31

\* TRUE when datetime(year, month, day, hour, minute, second) raises ValueError
DatetimeInvalid(dt) ==
  \/ dt[1] < 1 \/ dt[1] > 9999
  \/ dt[2] < 1 \/ dt[2] > 12
  \/ dt[3] < 1 \/ dt[3] > DaysInMonth(dt[1], dt[2])
  \/ dt[4] > 23 \/ dt[5] > 59 \/ dt[6] > 59

\* The fields read_datetime hands to datetime(): one unsigned byte each,
\* the year 2000-based
DatetimeFields(data, pos) ==
  [i \in 1..6 |-> (IF i = 1 THEN 2000 ELSE 0) + FromBytes(BufRead(data, pos + i - 1, 1))]

\* encode_datetime of a datetime value; << >> stands for the ValueError of
\* bytes() given a number outside 0..255
encode_datetime(dt) ==
  IF dt[1] - 2000 \in 0..255 THEN <<dt[1] - 2000, dt[2], dt[3], dt[4], dt[5], dt[6]>>
  ELSE << >>

\* Sensor.read_value of the codec classes, at the cursor: the value read
\* (an int as <<n>>, the float float(n) / scale as <<n, scale>>, a datetime
\* as its six fields), or << >> for ValueError
ReadValue(class, data, pos) ==
  CASE class = "Timestamp" ->
         IF DatetimeInvalid(DatetimeFields(data, pos)) THEN << >>
         ELSE DatetimeFields(data, pos)
    [] class = "Integer" -> <<read_bytes2(data, pos)>>
    [] class = "Long" -> <<read_bytes4(data, pos)>>
    [] class = "Byte" -> <<read_byte(data, pos)>>
    [] class \in ScaledClasses -> <<read_bytes2(data, pos), ScaleOf(class)>>
    [] class \in {"Power4", "Apparent4", "Reactive4"} -> <<read_bytes4(data, pos)>>
    [] class = "Energy4" ->
         IF read_bytes4(data, pos) = -1 THEN <<"None">> ELSE <<read_bytes4(data, pos), 10>>

\* Sensor.encode_value of the codec classes; << >> when it raises
EncodeValue(class, v) ==
  CASE class = "Timestamp" -> encode_datetime(v)
    [] class = "Integer" -> ToBytesSigned(v[1], 2)
    [] class = "Long" -> ToBytesSigned(v[1], 4)
    [] class \in ScaledClasses -> ToBytesSigned(ScaledInt(v, ScaleOf(class)), 2)

\* Sensor.size_ of the codec classes
SizeOf(class) ==
  CASE class = "Timestamp" -> 6
    [] class = "Integer" -> 2
    [] class = "Long" -> 4
    [] class = "Byte" -> 1
    [] class \in ScaledClasses -> 2
    [] class \in {"Power4", "Energy4"} -> 4
    [] class \in {"Apparent4", "Reactive4"} -> 2

\* The bytes read_value of the class asks the buffer for: the n of its
\* buffer.read(n) calls
ReadWidth(class) ==
  CASE class = "Timestamp" -> 6
    [] class = "Integer" -> 2
    [] class \in {"Long", "Power4", "Energy4", "Apparent4", "Reactive4"} -> 4
    [] class = "Byte" -> 1
    [] class \in ScaledClasses -> 2

\* -------------------------------------------------------------- DT settings
\* DT._settings as built by DT.__init__: setting id -> codec class
Settings ==
  [id \in {"time", "shadow_scan", "grid_export", "grid_export_limit"} |->
     IF id = "time" THEN "Timestamp" ELSE "Integer"]

\* The setting ids callers ask for
RequestedIds == {"time", "grid_export_limit", "work_mode"}

\* The values callers pass to write_setting
WriteValues == {<<2024, 3, 5, 10, 0, 0>>, <<1999, 12, 31, 23, 59, 59>>, <<50>>, <<40000>>}

\* The register payloads of valid replies to read commands
Payloads == {<<24, 3, 5, 10, 0, 0>>, <<24, 2, 30, 10, 0, 0>>, <<0, 50>>, <<255, 255>>}

\* The payloads a valid reply to command cmd can carry: count registers for a
\* read, none that the caller decodes for the other commands
ValidPayloads(cmd) ==
  IF cmd.kind = "ModbusReadCommand" THEN {p \in Payloads : Len(p) = 2 * cmd.count}
  ELSE {<< >>}

\* The command read_setting builds for a setting of the given class
ReadSettingCommand(class) ==
  [kind |-> "ModbusReadCommand", count |-> (SizeOf(class) + (SizeOf(class) % 2)) \div 2,
   arg |-> << >>]

WriteSettingCommandMultiFromTwo(raw) ==
  IF Len(raw) < 2
  THEN [kind |-> "ModbusWriteCommand", count |-> 1, arg |-> <<FromBytesSigned(raw)>>]
  ELSE [kind |-> "ModbusWriteMultiCommand", count |-> Len(raw) \div 2, arg |-> raw]

\* The command write_setting builds for the encoded value: arg is the value
\* of a ModbusWriteCommand, the raw bytes of a ModbusWriteMultiCommand
WriteSettingCommand(raw) ==
  IF Len(raw) <= 2
  THEN [kind |-> "ModbusWriteCommand", count |-> 1, arg |-> <<FromBytesSigned(raw)>>]
  ELSE [kind |-> "ModbusWriteMultiCommand", count |-> Len(raw) \div 2, arg |-> raw]

\* ------------------------------------------------------------ _ensure_lock
LockIsValidOtherLoop(d, l) == lock[d] /= None /\ running_loop[d] /= l

LockIsValidAnyLoop(d, l) == lock[d] /= None

\* TRUE when _ensure_lock keeps the stored lock for a caller running on loop l
LockIsValid(d, l) == lock[d] /= None /\ running_loop[d] = l

\* The lock reference _ensure_lock returns to a caller running on loop l
EnsuredLock(d, l) == IF LockIsValid(d, l) THEN lock[d] ELSE Len(locks) + 1

\* The lock objects after _ensure_lock ran for a caller on loop l
EnsuredLocks(d, l) ==
  IF LockIsValid(d, l) THEN locks
  ELSE Append(locks, [locked |-> FALSE, waiters |-> << >>])

\* ------------------------------------------------------- asyncio.Lock
\* Lock.acquire takes the lock at once when it is free and nobody waits
CanAcquireNow(lk) == ~lk.locked /\ lk.waiters = << >>

\* Lock.release: unlock; _wake_up_first resolves the future of the first waiter
Released(lk) == [lk EXCEPT !.locked = FALSE]

\* Lock.release without _wake_up_first
FirstWaiterForgotten(lk) == None

FirstWaiter(lk) == IF lk.waiters = << >> THEN None ELSE Head(lk.waiters)

\* Remove the first occurrence of t from sequence s
RECURSIVE Without(_, _)
Without(s, t) ==
  IF s = << >> THEN << >>
  ELSE IF Head(s) = t THEN Tail(s) ELSE <<Head(s)>> \o Without(Tail(s), t)

\* ------------------------------------------------ ProtocolCommand.execute
ExecuteRetriesPlusOne(d) == retries[d] + 1

\* The retries argument _read_from_socket hands to command.execute
ExecuteRetries(d) == retries[d]

\* --------------------------------------------------- _read_from_socket
\* The counters of all devices after execute on device d ended with exception
\* exc ("none": a response)
CountAfterShared(d, exc) ==
  [e \in Devices |->
     CASE exc = "none" -> 0
       [] exc = "MaxRetriesException" -> consecutive_failures_count[d] + 1
       [] exc = "RequestFailedException" -> consecutive_failures_count[d] + 1
       [] OTHER -> consecutive_failures_count[e]]

CountAfterNoReset(d, exc) ==
  [consecutive_failures_count EXCEPT ![d] =
     CASE exc = "none" -> @
       [] exc = "MaxRetriesException" -> @ + 1
       [] exc = "RequestFailedException" -> @ + 1
       [] OTHER -> @]

CountAfter(d, exc) ==
  [consecutive_failures_count EXCEPT ![d] =
     CASE exc = "none" -> 0
       [] exc = "MaxRetriesException" -> @ + 1
       [] exc = "RequestFailedException" -> @ + 1
       [] OTHER -> @]

\* What the caller of _read_from_socket gets when execute ended with exc
Raised(exc) ==
  CASE exc = "none" -> "response"
    [] exc = "MaxRetriesException" -> "RequestFailedException"
    [] exc = "RequestFailedException" -> "RequestFailedException"
    [] OTHER -> exc

ReleasesOnHandled(exc) ==
  exc \in {"none", "MaxRetriesException", "RequestFailedException"}

\* TRUE when __aexit__ of the lock runs on leaving the block with exc
ReleasesOn(exc) == TRUE

\* `async with self._ensure_lock():` up to the first suspension point: the
\* lock is taken and execute sends its first request, or the task queues
EnterReadFromSocket(t, d, l, op, sid, cmd) ==
  LET id == EnsuredLock(d, l)
      ls == EnsuredLocks(d, l)
      now == CanAcquireNow(ls[id])
  IN /\ lock' = [lock EXCEPT ![d] = id]
     /\ running_loop' = [running_loop EXCEPT ![d] = l]
     /\ locks' = IF now THEN [ls EXCEPT ![id].locked = TRUE]
                 ELSE [ls EXCEPT ![id].waiters = Append(@, t)]
     /\ task' = [task EXCEPT ![t] = [IdleTask EXCEPT
                    !.pc = IF now THEN "await" ELSE "waiting",
                    !.attempts = IF now THEN 1 ELSE 0,
                    !.dev = d, !.loop = l, !.lck = id,
                    !.op = op, !.sid = sid, !.cmd = cmd]]
     /\ pending' = [pending EXCEPT ![d] = Append(@, t)]
     /\ loops_used' = [loops_used EXCEPT ![d] = @ \cup {l}]

\* send_command(command, validator)
SendCommand(t, d, l) ==
  /\ task[t].pc = "idle"
  /\ EnterReadFromSocket(t, d, l, "send_command", "", [kind |-> "ProtocolCommand", count |-> 0, arg |-> << >>])
  /\ UNCHANGED <<retries, consecutive_failures_count, failures_since_success, mapvars, codecvars>>

\* A call that raises before its first suspension point
RaiseAtOnce(t, exc) ==
  /\ task' = [task EXCEPT ![t] = [IdleTask EXCEPT !.pc = "done", !.outcome = exc]]
  /\ UNCHANGED <<retries, running_loop, lock, consecutive_failures_count, locks,
                 pending, loops_used, failures_since_success, mapvars, codecvars>>

\* TRUE when self._settings.get(setting_id) finds a setting
SettingKnown(sid) == sid \in DOMAIN Settings

UnknownSettingSent(t, d, l) ==
  /\ EnterReadFromSocket(t, d, l, "send_command", "", [kind |-> "ProtocolCommand", count |-> 0, arg |-> << >>])
  /\ UNCHANGED <<retries, consecutive_failures_count, failures_since_success, mapvars, codecvars>>

\* read_setting and write_setting when the setting is not found
UnknownSetting(t, d, l) == RaiseAtOnce(t, "ValueError")

\* The exception encode_value of the codec class raises for a value it
\* cannot encode: int.to_bytes overflows, bytes() rejects the number
EncodeError(class) ==
  CASE class = "Timestamp" -> "ValueError"
    [] class = "Integer" -> "OverflowError"

\* DT.read_setting up to its first suspension point
ReadSetting(t, d, l, sid) ==
  /\ task[t].pc = "idle"
  /\ IF ~SettingKnown(sid) THEN UnknownSetting(t, d, l)
     ELSE /\ EnterReadFromSocket(t, d, l, "read_setting", sid,
                                 ReadSettingCommand(Settings[sid]))
          /\ UNCHANGED <<retries, consecutive_failures_count, failures_since_success, mapvars, codecvars>>

\* DT.write_setting up to its first suspension point
WriteSetting(t, d, l, sid, v) ==
  /\ task[t].pc = "idle"
  /\ IF ~SettingKnown(sid) THEN UnknownSetting(t, d, l)
     ELSE /\ (Settings[sid] = "Timestamp") = (Len(v) = 6)
          /\ LET raw == EncodeValue(Settings[sid], v) IN
               IF raw = << >> THEN RaiseAtOnce(t, EncodeError(Settings[sid]))
               ELSE /\ EnterReadFromSocket(t, d, l, "write_setting", sid,
                                           WriteSettingCommand(raw))
                    /\ UNCHANGED <<retries, consecutive_failures_count,
                                   failures_since_success, mapvars, codecvars>>

\* A waiter whose future was resolved resumes inside Lock.acquire, takes the
\* lock and starts execute
Resume(t) ==
  /\ task[t].pc = "woken"
  /\ LET id == task[t].lck
     IN locks' = [locks EXCEPT ![id].waiters = Without(@, t), ![id].locked = TRUE]
  /\ task' = [task EXCEPT ![t].pc = "await", ![t].attempts = 1]
  /\ UNCHANGED <<retries, running_loop, lock, consecutive_failures_count, pending,
                 loops_used, failures_since_success, mapvars, codecvars>>

\* What the API call of task t returns or raises once _read_from_socket
\* returned the response with payload data: read_setting decodes the value
Returned(t, data) ==
  IF task[t].op = "read_setting" THEN ReadValue(Settings[task[t].sid], data, 0)
  ELSE << >>

Outcome(t, exc, data) ==
  IF exc = "none" /\ task[t].op = "read_setting"
  THEN (IF Returned(t, data) = << >> THEN "ValueError" ELSE "value")
  ELSE Raised(exc)

\* The rest of the try statement once execute ended, then __aexit__ of the
\* lock, then the rest of the calling coroutine
Finish(t, exc, data) ==
  LET d == task[t].dev
      id == task[t].lck
      w == FirstWaiter(locks[id])
      n == CountAfter(d, exc)[d]
  IN /\ consecutive_failures_count' = CountAfter(d, exc)
     /\ locks' = IF ReleasesOn(exc) THEN [locks EXCEPT ![id] = Released(@)] ELSE locks
     /\ task' = [u \in Tasks |->
                   IF u = t THEN [IdleTask EXCEPT !.pc = "done",
                                    !.outcome = Outcome(t, exc, data),
                                    !.value = IF exc = "none" THEN Returned(t, data)
                                              ELSE << >>,
                                    !.carried = IF Raised(exc) = "RequestFailedException"
                                                THEN n ELSE 0]
                   ELSE IF u = w /\ ReleasesOn(exc) /\ task[u].pc = "waiting"
                        THEN [task[u] EXCEPT !.pc = "woken"]
                   ELSE task[u]]
     /\ pending' = [pending EXCEPT ![d] = Without(@, t)]
     /\ failures_since_success' = [failures_since_success EXCEPT ![d] =
           CASE exc = "none" -> 0
             [] exc \in {"MaxRetriesException", "RequestFailedException"} -> @ + 1
             [] OTHER -> @]
     /\ UNCHANGED <<retries, running_loop, lock, loops_used, mapvars, codecvars>>

\* The ways the wait for the reply to command cmd can end
Replies(cmd) ==
  {[kind |-> k, data |-> << >>] : k \in {"timeout", "failed", "error"}}
    \cup {[kind |-> "valid", data |-> p] : p \in ValidPayloads(cmd)}

\* The wait for the reply ends: with a valid reply, with a timeout or an
\* invalid frame (send again, or give up when the attempts are used up), with
\* a hard request failure, or with any other exception
ExecuteReply(t, r) ==
  /\ task[t].pc = "await"
  /\ CASE r.kind = "valid" -> Finish(t, "none", r.data)
       [] r.kind = "timeout" ->
            IF task[t].attempts < ExecuteRetries(task[t].dev)
            THEN /\ task' = [task EXCEPT ![t].attempts = @ + 1]
                 /\ UNCHANGED <<retries, running_loop, lock, consecutive_failures_count,
                                locks, pending, loops_used, failures_since_success,
                                mapvars, codecvars>>
            ELSE Finish(t, "MaxRetriesException", r.data)
       [] r.kind = "failed" -> Finish(t, "RequestFailedException", r.data)
       [] OTHER -> Finish(t, "OSError", r.data)

\* ------------------------------------------------------------ _map_response
\* The first register of the running data request of DT
FirstAddress == 30100

\* The length in bytes of the running data the responses carry
DataLen == 60

\* ProtocolResponse.seek(address): the cursor for a register address
SeekPosition(address) == (address - FirstAddress) * 2

\* id_.startswith(prefix), ids and prefixes being tuples of characters
StartsWith(id, prefix) ==
  Len(id) >= Len(prefix) /\ SubSeq(id, 1, Len(prefix)) = prefix

IsUnknownId(id) == StartsWith(id, <<"x", "x">>)

\* Sensors as DT declares them
SensorPool ==
  { [id_ |-> <<"t", "i", "m", "e", "s", "t", "a", "m", "p">>, class |-> "Timestamp",
     offset |-> 30100],
    [id_ |-> <<"x", "x", "5", "4">>, class |-> "Integer", offset |-> 30127],
    [id_ |-> <<"w", "o", "r", "k", "_", "m", "o", "d", "e">>, class |-> "Integer",
     offset |-> 30129] }

MaxSensors == 3

\* The tuples of up to MaxSensors sensors with distinct ids
SensorTuples ==
  UNION { {q \in [1..n -> SensorPool] : \A i, j \in 1..n : i /= j => q[i].id_ /= q[j].id_}
          : n \in 0..MaxSensors }

TimestampBytes ==
  {<<24, 3, 5, 10, 0, 0>>, <<24, 13, 5, 10, 0, 0>>, <<23, 2, 29, 10, 0, 0>>,
   <<24, 2, 29, 23, 59, 59>>}

RegisterBytes == {<<0, 7>>, <<255, 255>>}

\* Running data: a timestamp, the registers of xx54 and work_mode, zeros else
RunningData(ts, r1, r2) ==
  [i \in 1..DataLen |->
     IF i <= 6 THEN ts[i]
     ELSE IF i \in 55..56 THEN r1[i - 54]
     ELSE IF i \in 59..60 THEN r2[i - 58]
     ELSE 0]

\* The lengths of the responses: a full one and one cut short
DataLengths == {DataLen, 4}

InitMap ==
  /\ InverterInit
  /\ EngineInit
  /\ CodecIdle
  /\ \E ts \in TimestampBytes, r1 \in RegisterBytes, r2 \in RegisterBytes,
        n \in DataLengths :
       map_response = [data |-> SubSeq(RunningData(ts, r1, r2), 1, n), pos |-> 0]
  /\ map_sensors \in SensorTuples
  /\ map_incl_xx \in BOOLEAN
  /\ map_index = 1
  /\ map_result = << >>
  /\ map_pc = "loop"

\* The `if incl_xx or not sensor.id_.startswith("xx")` of the loop
Included(s, incl_xx) == incl_xx \/ ~IsUnknownId(s.id_)

\* Sensor.read: seek to the sensor's offset, then read_value
SensorRead(s, data) == ReadValue(s.class, data, SeekPosition(s.offset))

\* The cursor after Sensor.read: read_value of the class reads size_ bytes,
\* one read() at a time, and read() advances the cursor by what it asked for
CursorAfterRead(s) == SeekPosition(s.offset) + SizeOf(s.class)

\* result[key] = entry
Stored(result, key, entry) ==
  [k \in DOMAIN result \cup {key} |-> IF k = key THEN entry ELSE result[k]]

NoneEntry == [is_none |-> TRUE, value |-> << >>]

SwallowedIfUnknown(s) == IsUnknownId(s.id_)

\* TRUE when the except clause of the loop catches the ValueError of sensor s
Swallowed(s) == TRUE

StoredNoneDropped(result, s) == result

\* The except clause: result[sensor.id_] = None
StoredNone(result, s) == Stored(result, s.id_, NoneEntry)

\* One pass of the for loop of _map_response, or its return
MapResponseStep ==
  /\ map_pc = "loop"
  /\ IF map_index > Len(map_sensors)
     THEN /\ map_pc' = "done"
          /\ UNCHANGED <<map_response, map_result, map_index>>
     ELSE LET s == map_sensors[map_index]
              v == SensorRead(s, map_response.data)
          IN IF ~Included(s, map_incl_xx)
             THEN /\ map_index' = map_index + 1
                  /\ UNCHANGED <<map_response, map_result, map_pc>>
             ELSE /\ map_response' = [map_response EXCEPT !.pos = CursorAfterRead(s)]
                  /\ IF v /= << >>
                     THEN /\ map_result' = Stored(map_result, s.id_,
                                                  [is_none |-> FALSE, value |-> v])
                          /\ map_index' = map_index + 1
                          /\ map_pc' = "loop"
                     ELSE IF Swallowed(s)
                     THEN /\ map_result' = StoredNone(map_result, s)
                          /\ map_index' = map_index + 1
                          /\ map_pc' = "loop"
                     ELSE /\ map_pc' = "error"
                          /\ UNCHANGED <<map_result, map_index>>
  /\ UNCHANGED <<map_sensors, map_incl_xx, enginevars, codecvars>>

NextMap == MapResponseStep

SpecMap == InitMap /\ [][NextMap]_vars

\* ------------------------------------------------------ composite codecs
DAY_NAMES == <<"Sun", "Mon", "Tue", "Wed", "Thu", "Fri", "Sat">>

\* The binary digits of n >= 0, most significant first
RECURSIVE Bin(_)
Bin(n) ==
  IF n < 2 THEN <<IF n = 1 THEN "1" ELSE "0">>
  ELSE Bin(n \div 2) \o <<IF n % 2 = 1 THEN "1" ELSE "0">>

\* bin(data)[2:] as its characters: of "-0b101" the characters b101 are left
BinTail(data) == IF data < 0 THEN <<"b">> \o Bin(-data) ELSE Bin(data)

RECURSIVE Reverse(_)
Reverse(seq) == IF seq = << >> THEN << >> ELSE Append(Reverse(Tail(seq)), Head(seq))

\* The for loop of decode_day_of_week: daynames[0] and daynames.pop(0) raise
\* IndexError on the empty list. The string days is the tuple of its pieces
\* (day names and "," separators), "" being << >>
RECURSIVE DayLoop(_, _, _)
DayLoop(chars, daynames, days) ==
  IF chars = << >> THEN [error |-> "none", days |-> days]
  ELSE IF daynames = << >> THEN [error |-> "IndexError", days |-> days]
  ELSE DayLoop(Tail(chars), Tail(daynames),
               IF Head(chars) = "1"
               THEN (IF Len(days) > 0 THEN Append(days, ",") ELSE days)
                      \o <<Head(daynames)>>
               ELSE days)

\* The loop run over bits instead of bits[::-1]
decode_day_of_week_msb_first(data) == DayLoop(BinTail(data), DAY_NAMES, << >>)

\* decode_day_of_week
decode_day_of_week(data) == DayLoop(Reverse(BinTail(data)), DAY_NAMES, << >>)

Layouts == {"EcoModeV1", "EcoModeV2", "PeakShavingMode"}
EcoLayouts == {"EcoModeV1", "EcoModeV2"}

\* The fields read_value reads, in its order, with their widths in bytes
Fields(layout) ==
  LET f(n, w) == [name |-> n, size |-> w]
      times == <<f("start_h", 1), f("start_m", 1), f("end_h", 1), f("end_m", 1)>>
  IN CASE layout = "EcoModeV1" ->
            times \o <<f("power", 2), f("on_off", 1), f("day_bits", 1)>>
       [] layout = "EcoModeV2" ->
            times \o <<f("on_off", 1), f("day_bits", 1), f("power", 2), f("soc", 2)>>
       [] layout = "PeakShavingMode" ->
            times \o <<f("on_off", 1), f("day_bits", 1), f("import_power", 2), f("soc", 2)>>

\* The on/off codes read_value accepts
OnOffCodes(layout) ==
  CASE layout = "EcoModeV1" -> {0, -1}
    [] layout = "EcoModeV2" -> {0, -1, 85}
    [] layout = "PeakShavingMode" -> {-4, 3, 85}

\* The negation of the condition under which read_value raises ValueError for
\* the field; import_power is kept in hundredths (the code divides by 100)
InDomain(layout, name, v) ==
  CASE name \in {"start_h", "end_h"} -> ~((v < 0 \/ v > 23) /\ v /= 48)
    [] name \in {"start_m", "end_m"} -> ~(v < 0 \/ v > 59)
    [] name = "power" -> ~(v < -100 \/ v > 100)
    [] name = "on_off" -> v \in OnOffCodes(layout)
    [] name = "day_bits" -> ~(v < 0)
    [] name = "soc" -> ~(v < 0 \/ v > 100)
    [] name = "import_power" -> ~(v < 0 \/ v > 500 * 100)

\* The attributes __init__ sets to a value other than None
NewComposite(layout) ==
  IF layout = "EcoModeV1" THEN [n \in {"soc"} |-> 100] ELSE [n \in {} |-> 0]

\* self.name = v
Assign(obj, name, v) ==
  [n \in DOMAIN obj \cup {name} |-> IF n = name THEN v ELSE obj[n]]

\* read_value from field i on: obj holds the attributes assigned so far
RECURSIVE ReadFields(_, _, _, _, _)
ReadFields(layout, data, pos, i, obj) ==
  IF i > Len(Fields(layout)) THEN [error |-> "none", field |-> "", obj |-> obj]
  ELSE LET f == Fields(layout)[i]
           v == FromBytesSigned(BufRead(data, pos, f.size))
           set == Assign(obj, f.name, v)
       IN IF f.name = "day_bits"
          THEN LET dd == decode_day_of_week(v) IN
                 IF dd.error /= "none"
                 THEN [error |-> dd.error, field |-> "", obj |-> set]
                 ELSE IF ~InDomain(layout, f.name, v)
                 THEN [error |-> "ValueError", field |-> f.name,
                       obj |-> Assign(set, "days", dd.days)]
                 ELSE ReadFields(layout, data, pos + f.size, i + 1,
                                 Assign(set, "days", dd.days))
          ELSE IF ~InDomain(layout, f.name, v)
               THEN [error |-> "ValueError", field |-> f.name, obj |-> set]
               ELSE ReadFields(layout, data, pos + f.size, i + 1, set)

\* read_value of EcoModeV1, EcoModeV2 and PeakShavingMode on a fresh sensor:
\* the exception raised, the field its message names, and the sensor (which
\* is what the call returns)
ReadComposite(layout, data) == ReadFields(layout, data, 0, 1, NewComposite(layout))

FullTime(obj) ==
  obj["start_h"] = 0 /\ obj["start_m"] = 0 /\ obj["end_h"] = 23 /\ obj["end_m"] = 59

\* Both layouts testing on_off != 0
OnForEcoModeNotOff(layout, obj) == obj["on_off"] /= 0

OnForEcoMode(layout, obj) ==
  IF layout = "EcoModeV1" THEN obj["on_off"] /= 0 ELSE obj["on_off"] = -1

is_eco_charge_mode(layout, obj) ==
  FullTime(obj) /\ OnForEcoMode(layout, obj) /\ obj["day_bits"] = 127 /\ obj["power"] < 0

is_eco_discharge_mode(layout, obj) ==
  FullTime(obj) /\ OnForEcoMode(layout, obj) /\ obj["day_bits"] = 127 /\ obj["power"] > 0

\* "{:04x}".format(n) through bytes.fromhex, for n in 0..65535
Hex4(n) == ToBytes(n, 2)

encode_charge_positive(layout, eco_mode_power, eco_mode_soc) ==
  IF layout = "EcoModeV1"
  THEN <<0, 0, 23, 59>> \o Hex4(Abs(eco_mode_power)) \o <<255, 127>>
  ELSE <<0, 0, 23, 59, 255, 127>> \o Hex4(Abs(eco_mode_power))
         \o Hex4(eco_mode_soc) \o <<0, 0>>

encode_charge(layout, eco_mode_power, eco_mode_soc) ==
  IF layout = "EcoModeV1"
  THEN <<0, 0, 23, 59>> \o Hex4((65536 - Abs(eco_mode_power)) % 65536) \o <<255, 127>>
  ELSE <<0, 0, 23, 59, 255, 127>> \o Hex4((65536 - Abs(eco_mode_power)) % 65536)
         \o Hex4(eco_mode_soc) \o <<0, 0>>

encode_discharge(layout, eco_mode_power) ==
  IF layout = "EcoModeV1"
  THEN <<0, 0, 23, 59>> \o Hex4(Abs(eco_mode_power)) \o <<255, 127>>
  ELSE <<0, 0, 23, 59, 255, 127>> \o Hex4(Abs(eco_mode_power)) \o <<0, 100, 0, 0>>

CopiedFields == {"start_h", "start_m", "end_h", "end_m", "power", "on_off", "day_bits"}

\* EcoModeV1.as_eco_mode_v2: the new EcoModeV2
as_eco_mode_v2(obj) ==
  [n \in CopiedFields \cup {"days", "soc"} |->
     CASE n = "days" -> decode_day_of_week(obj["day_bits"]).days
       [] n = "soc" -> 100
       [] OTHER -> obj[n]]

as_eco_mode_v1_copy(obj) ==
  [n \in CopiedFields \cup {"days", "soc"} |->
     CASE n = "days" -> obj["days"]
       [] n = "soc" -> NewComposite("EcoModeV1")["soc"]
       [] OTHER -> obj[n]]

\* EcoModeV2.as_eco_mode_v1: the new EcoModeV1
as_eco_mode_v1(obj) ==
  [n \in CopiedFields \cup {"days", "soc"} |->
     CASE n = "days" -> obj["days"]
       [] n = "soc" -> NewComposite("EcoModeV1")["soc"]
       [] n = "on_off" -> (IF obj["on_off"] = -1 THEN -1 ELSE 0)
       [] OTHER -> obj[n]]

\* The register contents the composites are decoded from
HourBytes == {0, 23, 24, 48}
MinuteBytes == {0, 59, 60}
OnOffBytes == {0, 255, 85, 252, 3}
DayBytes == {0, 127, 128, 192, 193}
PowerWords == {<<0, 0>>, <<0, 50>>, <<0, 100>>, <<0, 101>>,
               <<255, 206>>, <<255, 156>>, <<255, 155>>}
SocWords == {<<0, 0>>, <<0, 100>>, <<0, 101>>, <<255, 255>>}
ImportWords == {<<0, 0>>, <<127, 255>>, <<255, 255>>}

TimeBytes == {<<a, b, c, d>> : a \in HourBytes, b \in MinuteBytes,
                               c \in HourBytes, d \in MinuteBytes}

CompositeBytes(layout) ==
  CASE layout = "EcoModeV1" ->
         {t \o w \o <<o, y>> : t \in TimeBytes, w \in PowerWords,
                               o \in OnOffBytes, y \in DayBytes}
    [] layout = "EcoModeV2" ->
         {t \o <<o, y>> \o w \o c \o <<0, 0>> : t \in TimeBytes, o \in OnOffBytes,
                                               y \in DayBytes, w \in PowerWords,
                                               c \in SocWords}
    [] layout = "PeakShavingMode" ->
         {t \o <<o, y>> \o w \o c \o <<0, 0>> : t \in TimeBytes, o \in OnOffBytes,
                                               y \in DayBytes, w \in ImportWords,
                                               c \in SocWords}

\* The powers and states of charge callers ask the encoders for
EcoPowers == 0..101
EcoSocs == {0, 80, 100}

\* sensor.read_value(data), then for an eco mode the two queries
DecodeComposite(layout, data) ==
  /\ codec_call' = [op |-> "read_value", layout |-> layout, data |-> data]
  /\ codec_result' =
       LET r == ReadComposite(layout, data)
           eco == r.error = "none" /\ layout \in EcoLayouts
       IN [error |-> r.error, field |-> r.field, obj |-> r.obj,
           charge |-> eco /\ is_eco_charge_mode(layout, r.obj),
           discharge |-> eco /\ is_eco_discharge_mode(layout, r.obj)]
  /\ UNCHANGED <<enginevars, mapvars, instancevars>>

\* sensor.read_value(sensor.encode_charge(power, soc)) and
\* sensor.read_value(sensor.encode_discharge(power)): encode_discharge takes
\* no state of charge, the one asked for is not passed on
EncodeDecode(layout, mode, power, soc) ==
  /\ codec_call' = [op |-> "encode_decode", layout |-> layout, mode |-> mode,
                    power |-> power, soc |-> soc]
  /\ codec_result' =
       LET raw == IF mode = "charge" THEN encode_charge(layout, power, soc)
                  ELSE encode_discharge(layout, power)
           r == ReadComposite(layout, raw)
       IN [error |-> r.error, field |-> r.field, obj |-> r.obj, raw |-> raw,
           charge |-> r.error = "none" /\ is_eco_charge_mode(layout, r.obj),
           discharge |-> r.error = "none" /\ is_eco_discharge_mode(layout, r.obj)]
  /\ UNCHANGED <<enginevars, mapvars, instancevars>>

\* as_eco_mode_v2 / as_eco_mode_v1 of a decoded eco mode: the converted
\* composite and the source after the call
ConvertEco(layout, data) ==
  /\ ReadComposite(layout, data).error = "none"
  /\ codec_call' = [op |-> "convert", layout |-> layout, data |-> data]
  /\ codec_result' =
       LET source == ReadComposite(layout, data).obj
       IN [source |-> source, self |-> source,
           result |-> IF layout = "EcoModeV1" THEN as_eco_mode_v2(source)
                      ELSE as_eco_mode_v1(source)]
  /\ UNCHANGED <<enginevars, mapvars, instancevars>>

\* One call of a codec function in a behaviour
NextComposite ==
  /\ codec_call.op = "none"
  /\ \/ \E layout \in Layouts : \E data \in CompositeBytes(layout) :
          DecodeComposite(layout, data)
     \/ \E layout \in EcoLayouts, mode \in {"charge", "discharge"},
           power \in EcoPowers, soc \in EcoSocs : EncodeDecode(layout, mode, power, soc)
     \/ \E layout \in EcoLayouts : \E data \in CompositeBytes(layout) :
          ConvertEco(layout, data)

SpecComposite == Init /\ [][NextComposite]_vars

\* ------------------------------------------- one composite sensor instance
\* encode_off of the three composite sensors
encode_off(layout) ==
  IF layout = "EcoModeV1" THEN <<48, 0, 48, 0, 0, 100, 0, 0>>
  ELSE <<48, 0, 48, 0, 0, 0, 0, 100, 0, 100, 0, 0>>

\* The size_ a composite sensor passes to Sensor.__init__, which is also the
\* length its encode_value asks for
LayoutSize(layout) == IF layout = "EcoModeV1" THEN 8 ELSE 12

\* encode_value(value) of a composite sensor whose attributes are attrs: the
\* exception raised, the bytes returned and the attributes after the call.
\* The sensor returned by read_value is truthy (no __bool__, no __len__)
encode_value(layout, value, attrs) ==
  IF Len(value) = LayoutSize(layout)
  THEN LET r == ReadFields(layout, value, 0, 1, attrs)
       IN [error |-> r.error, raw |-> IF r.error = "none" THEN value ELSE << >>,
           obj |-> r.obj]
  ELSE [error |-> "ValueError", raw |-> << >>, obj |-> attrs]

\* Register contents every field of which is in range
InstanceValues(layout) ==
  IF layout \in EcoLayouts
  THEN {encode_charge(layout, 30, 80), encode_discharge(layout, 50), encode_off(layout)}
  ELSE {<<0, 0, 23, 59, 252, 127, 1, 244, 0, 80, 0, 0>>,
        <<6, 30, 8, 0, 3, 3, 0, 100, 0, 50, 0, 0>>}

\* The same with the end hour 24, which read_value rejects after it has
\* read start_h, start_m and end_h
InstanceResponses(layout) ==
  InstanceValues(layout) \cup {[d EXCEPT ![3] = 24] : d \in InstanceValues(layout)}

\* One sensor of each composite class is constructed at registration; no
\* read has returned yet
InitInstance ==
  /\ InverterInit
  /\ EngineInit
  /\ MapIdle
  /\ codec_call = [op |-> "none"]
  /\ codec_result = << >>
  /\ \E layout \in Layouts :
       /\ sensor = [layout |-> layout, attrs |-> NewComposite(layout)]
       /\ held = [returned |-> FALSE, seen |-> NewComposite(layout)]

\* value = sensor.read(response), the sensor's registers being the first of
\* the response: read_value returns self, so the caller holds the sensor;
\* seen is what its attributes were at the return
ReadInstance(data) ==
  LET r == ReadFields(sensor.layout, data, SeekPosition(FirstAddress), 1, sensor.attrs)
  IN /\ codec_call' = [op |-> "sensor_read", data |-> data]
     /\ codec_result' = [error |-> r.error, raw |-> << >>]
     /\ sensor' = [sensor EXCEPT !.attrs = r.obj]
     /\ held' = IF r.error = "none" THEN [returned |-> TRUE, seen |-> r.obj] ELSE held
     /\ UNCHANGED <<enginevars, mapvars>>

\* sensor.encode_value(value)
EncodeInstance(value) ==
  LET e == encode_value(sensor.layout, value, sensor.attrs)
  IN /\ codec_call' = [op |-> "sensor_encode", data |-> value]
     /\ codec_result' = [error |-> e.error, raw |-> e.raw]
     /\ sensor' = [sensor EXCEPT !.attrs = e.obj]
     /\ UNCHANGED <<enginevars, mapvars, held>>

\* encode_value(encode_off()) of the sensor
EncodeOff ==
  LET e == encode_value(sensor.layout, encode_off(sensor.layout), sensor.attrs)
  IN /\ codec_call' = [op |-> "sensor_encode_off", data |-> encode_off(sensor.layout)]
     /\ codec_result' = [error |-> e.error, raw |-> e.raw]
     /\ sensor' = [sensor EXCEPT !.attrs = e.obj]
     /\ UNCHANGED <<enginevars, mapvars, held>>

\* The sensor is read and encoded many times
NextInstance ==
  \/ \E data \in InstanceResponses(sensor.layout) : ReadInstance(data)
  \/ \E value \in InstanceResponses(sensor.layout) \cup {<<0, 0>>} : EncodeInstance(value)
  \/ EncodeOff

SpecInstance == InitInstance /\ [][NextInstance]_vars

\* --------------------------------------------------------- scalar codecs
\* The codecs with encode_value, and the fixed-width ones read from buffers
EncodingClasses == {"Integer", "Long", "Timestamp"} \cup ScaledClasses
ReadClasses == {"Byte", "Integer", "Long", "Voltage", "Timestamp"}

\* Register contents the scalar codecs decode
RawWords == {<<h, l>> : h \in {0, 1, 127, 128, 255}, l \in 0..255}
RawLongs == {<<a, b, c, d>> : a \in {0, 127, 128, 255}, b \in {0, 255},
                              c \in {0, 255}, d \in {0, 1, 255}}
RawOf(class) ==
  CASE class = "Timestamp" -> TimestampBytes
    [] class = "Long" -> RawLongs
    [] OTHER -> RawWords

\* The values callers encode: those the codec can decode
ValuesOf(class) == {ReadValue(class, raw, 0) : raw \in RawOf(class)} \ {<< >>}

\* Responses of every length up to their full one
ResponseContents == {<<24, 3, 5, 10, 20, 30, 1, 2>>, <<255, 254, 253, 252, 251, 250, 249, 248>>}
Responses == {SubSeq(c, 1, n) : c \in ResponseContents, n \in 0..8}

\* The register addresses of the sensors read from them
SensorAddresses == FirstAddress..(FirstAddress + 3)

\* Sensor.read(data): seek to the offset of the sensor, then read_value
ReadSensor(class, data, offset) ==
  /\ codec_call' = [op |-> "read", class |-> class, data |-> data, offset |-> offset]
  /\ codec_result' = [value |-> ReadValue(class, data, SeekPosition(offset))]
  /\ UNCHANGED <<enginevars, mapvars, instancevars>>

\* sensor.encode_value(sensor.read_value(raw))
Reencode(class, raw) ==
  /\ codec_call' = [op |-> "reencode", class |-> class, raw |-> raw]
  /\ codec_result' =
       LET v == ReadValue(class, raw, 0)
       IN [value |-> v, raw |-> IF v = << >> THEN << >> ELSE EncodeValue(class, v)]
  /\ UNCHANGED <<enginevars, mapvars, instancevars>>

\* sensor.read_value(sensor.encode_value(v))
EncodeDecodeScalar(class, v) ==
  /\ codec_call' = [op |-> "encode_read", class |-> class, value |-> v]
  /\ codec_result' =
       LET raw == EncodeValue(class, v)
       IN [raw |-> raw, value |-> IF raw = << >> THEN << >> ELSE ReadValue(class, raw, 0)]
  /\ UNCHANGED <<enginevars, mapvars, instancevars>>

\* The sensors documented as encoded in 4 bytes
WideClasses == {"Power4", "Energy4", "Apparent4", "Reactive4", "Long"}

\* sensor.read(data) of a 4 byte sensor on the first registers, two more
\* registers following: the value, the sensor's size_ and the bytes the
\* buffer handed out
ReadWideSensor(class, raw) ==
  LET data == raw \o <<0, 0, 0, 0>>
      pos == SeekPosition(FirstAddress)
  IN /\ codec_call' = [op |-> "read_wide", class |-> class, data |-> data]
     /\ codec_result' = [value |-> ReadValue(class, data, pos),
                         size_ |-> SizeOf(class),
                         consumed |-> Len(BufRead(data, pos, ReadWidth(class)))]
     /\ UNCHANGED <<enginevars, mapvars, instancevars>>

NextScalar ==
  /\ codec_call.op = "none"
  /\ \/ \E class \in ReadClasses, data \in Responses, offset \in SensorAddresses :
          ReadSensor(class, data, offset)
     \/ \E class \in EncodingClasses : \E raw \in RawOf(class) : Reencode(class, raw)
     \/ \E class \in EncodingClasses : \E v \in ValuesOf(class) :
          EncodeDecodeScalar(class, v)
     \/ \E class \in WideClasses, raw \in RawLongs : ReadWideSensor(class, raw)

SpecScalar == Init /\ [][NextScalar]_vars

\* --------------------------------------------------------------- bitmaps
\* str(n) for n >= 0, strings being tuples of characters
RECURSIVE Digits(_)
Digits(n) ==
  LET c == <<"0", "1", "2", "3", "4", "5", "6", "7", "8", "9">>[(n % 10) + 1]
  IN IF n < 10 THEN <<c>> ELSE Append(Digits(n \div 10), c)

\* bitmap.get(i, f'err{i}')
LabelOf(bitmap, i) == IF i \in DOMAIN bitmap THEN bitmap[i] ELSE <<"e", "r", "r">> \o Digits(i)

\* The for loop of decode_bitmap from bit i up to bit n - 1: bits & 0x1 is
\* the parity of bits, bits >> 1 its floor division by 2
RECURSIVE BitmapLoop(_, _, _, _, _)
BitmapLoop(bits, i, n, result, bitmap) ==
  IF i >= n THEN result
  ELSE BitmapLoop(bits \div 2, i + 1, n,
                  IF bits % 2 = 1 THEN Append(result, LabelOf(bitmap, i)) ELSE result,
                  bitmap)

\* sep.join(list)
RECURSIVE Join(_, _)
Join(sep, list) ==
  IF list = << >> THEN << >>
  ELSE IF Len(list) = 1 THEN list[1]
  ELSE list[1] \o sep \o Join(sep, Tail(list))

decode_bitmap_31(value, bitmap) ==
  Join(<<",", " ">>, BitmapLoop(value, 0, 31, << >>, bitmap))

decode_bitmap(value, bitmap) ==
  Join(<<",", " ">>, BitmapLoop(value, 0, 32, << >>, bitmap))

\* Bit k of the two's complement of h, a signed 16 bit value
BitOfWord(h, k) == IF k >= 16 THEN h < 0 ELSE (h \div 2 ^ k) % 2 = 1

RECURSIVE SumBits(_, _, _)
SumBits(h, n, i) ==
  IF i > 30 THEN 0
  ELSE (IF i >= n /\ BitOfWord(h, i - n) THEN 2 ^ i ELSE 0) + SumBits(h, n, i + 1)

\* The low 32 bits of h << n as a signed value, for n >= 0: the bits
\* decode_bitmap looks at, so that it returns for this value what it returns
\* for h << n
ShiftLeft(h, n) ==
  IF 31 >= n /\ BitOfWord(h, 31 - n) THEN (SumBits(h, n, 0) - 2147483647) - 1
  ELSE SumBits(h, n, 0)

\* EnumBitmap4.read
ReadEnumBitmap4(data, offset, labels) ==
  [error |-> "none",
   text |-> decode_bitmap(read_bytes4(data, SeekPosition(offset)), labels)]

\* EnumBitmap22.read: `<<` binds weaker than `+`, so the high register is
\* shifted by 16 plus the low register; a negative shift count raises
\* ValueError
ReadEnumBitmap22(data, offset, offsetL, labels) ==
  LET high == read_bytes2(data, SeekPosition(offset))
      low == read_bytes2(data, SeekPosition(offsetL))
  IN IF 16 + low < 0 THEN [error |-> "ValueError", text |-> << >>]
     ELSE [error |-> "none", text |-> decode_bitmap(ShiftLeft(high, 16 + low), labels)]

\* The label mappings of the bitmap sensors
LabelMaps ==
  { (0 :> <<"A">>) @@ (2 :> <<"C">>),
    [i \in 0..31 |-> <<"L">> \o Digits(i)],
    [i \in {} |-> << >>] }

\* Register contents of the bitmap sensors
BitmapBytes == {0, 1, 5, 128, 255}
BitmapLongs == {<<a, b, c, d>> : a, b, c, d \in BitmapBytes}
HighWords == {<<0, 0>>, <<0, 1>>, <<0, 5>>, <<128, 0>>, <<255, 255>>}
LowWords == {<<0, 0>>, <<0, 1>>, <<0, 5>>, <<0, 16>>, <<128, 0>>, <<255, 240>>, <<255, 239>>}

\* sensor.read(data) of an EnumBitmap4 on the first registers
ReadBitmap4(data, labels) ==
  /\ codec_call' = [op |-> "bitmap4", data |-> data, labels |-> labels]
  /\ codec_result' = ReadEnumBitmap4(data, FirstAddress, labels)
  /\ UNCHANGED <<enginevars, mapvars, instancevars>>

\* sensor.read(data) of an EnumBitmap22 with the high register first and the
\* low register two registers on
ReadBitmap22(high, low, labels) ==
  /\ codec_call' = [op |-> "bitmap22", high |-> high, low |-> low, labels |-> labels]
  /\ codec_result' = ReadEnumBitmap22(high \o <<0, 0>> \o low, FirstAddress,
                                      FirstAddress + 2, labels)
  /\ UNCHANGED <<enginevars, mapvars, instancevars>>

\* The day bitmasks read_value hands to decode_day_of_week: a signed byte
DayMasks == -128..127

\* decode_day_of_week(data)
DecodeDays(data) ==
  /\ codec_call' = [op |-> "days", data |-> data]
  /\ codec_result' = decode_day_of_week(data)
  /\ UNCHANGED <<enginevars, mapvars, instancevars>>

NextBitmap ==
  /\ codec_call.op = "none"
  /\ \/ \E data \in BitmapLongs, labels \in LabelMaps : ReadBitmap4(data, labels)
     \/ \E high \in HighWords, low \in LowWords, labels \in LabelMaps :
          ReadBitmap22(high, low, labels)
     \/ \E data \in DayMasks : DecodeDays(data)

SpecBitmap == Init /\ [][NextBitmap]_vars

\* ------------------------------------------------ one shared response buffer
\* offset=None of the read helpers
NoOffset == -1

\* `if offset is not None: buffer.seek(offset)` of read_byte, read_bytes2,
\* read_bytes4, read_voltage, read_current: the cursor the helper reads at
CursorFor(buf, offset) == IF offset = NoOffset THEN buf.pos ELSE SeekPosition(offset)

\* Sensor.read without its data.seek(self.offset)
ReadStartAtCursor(s, buf) == buf.pos

\* Sensor.read: data.seek(self.offset), then read_value reads at the cursor
ReadStart(s, buf) == CursorFor([buf EXCEPT !.pos = SeekPosition(s.offset)], NoOffset)

\* labels.get(v): the label, or None
LabelGet(labels, v) ==
  IF v \in DOMAIN labels THEN [is_none |-> FALSE, value |-> labels[v]] ELSE NoneEntry

\* The value read_value returned, or the ValueError it raised
ValueOrError(v) ==
  IF v = << >> THEN [error |-> "ValueError", entry |-> NoneEntry]
  ELSE [error |-> "none", entry |-> [is_none |-> FALSE, value |-> v]]

\* sensor.read(buf) of every kind of sensor: the exception raised, the value
\* returned and the cursor the call leaves behind. The getter of a
\* Calculated is that of ppv1: round(read_voltage(data, a) * read_current(data, b))
SharedRead(s, buf) ==
  LET data == buf.data
      start == ReadStart(s, buf)
  IN CASE s.class \in {"Integer", "Voltage", "Timestamp"} ->
            [read |-> ValueOrError(ReadValue(s.class, data, start)),
             pos |-> start + SizeOf(s.class)]
       [] s.class = "Enum2" ->
            [read |-> [error |-> "none",
                       entry |-> LabelGet(s.labels, read_bytes2(data, start))],
             pos |-> start + 2]
       [] s.class = "EnumL" ->
            [read |-> [error |-> "none",
                       entry |-> LabelGet(s.labels, read_byte(data, start + 1))],
             pos |-> start + 2]
       [] s.class = "EnumBitmap4" ->
            LET r == ReadEnumBitmap4(data, s.offset, s.labels)
            IN [read |-> [error |-> r.error,
                          entry |-> IF r.error = "none"
                                    THEN [is_none |-> FALSE, value |-> r.text]
                                    ELSE NoneEntry],
                pos |-> CursorFor(buf, s.offset) + 4]
       [] s.class = "EnumBitmap22" ->
            LET r == ReadEnumBitmap22(data, s.offset, s.offsetL, s.labels)
            IN [read |-> [error |-> r.error,
                          entry |-> IF r.error = "none"
                                    THEN [is_none |-> FALSE, value |-> r.text]
                                    ELSE NoneEntry],
                pos |-> CursorFor(buf, s.offsetL) + 2]
       [] s.class = "Calculated" ->
            LET v == ReadValue("Voltage", data, CursorFor(buf, s.getter[1]))
                c == ReadValue("Current", data, CursorFor(buf, s.getter[2]))
            IN [read |-> [error |-> "none",
                          entry |-> [is_none |-> FALSE, value |-> <<"round", v, c>>]],
                pos |-> CursorFor(buf, s.getter[2]) + 2]

\* Running data in which every byte tells its position: byte i is i + k
SharedData(k) == [i \in 1..DataLen |-> (i + k) % 256]

\* The running data of a batch: with k = 12 the timestamp has month 14
SharedShifts == {0, 12}

\* A sensor of class c and id id_ with its offsets, its labels and the
\* offsets its getter reads
SharedSensor(id_, c, offset, offsetL, labels, getter) ==
  [id_ |-> id_, class |-> c, offset |-> offset, offsetL |-> offsetL,
   labels |-> labels, getter |-> getter]

\* Sensors of every kind on the registers of the running data
SharedPool ==
  LET no == [i \in {} |-> << >>]
  IN { SharedSensor(<<"t">>, "Timestamp", 30100, NoOffset, no, << >>),
       SharedSensor(<<"v">>, "Voltage", 30103, NoOffset, no, << >>),
       SharedSensor(<<"p">>, "Calculated", 0, NoOffset, no, <<30103, 30104>>),
       SharedSensor(<<"b">>, "EnumBitmap4", 30110, NoOffset,
                    [i \in 0..31 |-> <<"L">> \o Digits(i)], << >>),
       SharedSensor(<<"s">>, "EnumBitmap22", 30112, 30114, (0 :> <<"A">>), << >>),
       SharedSensor(<<"i">>, "Integer", 30127, NoOffset, no, << >>),
       SharedSensor(<<"l">>, "EnumL", 30128, NoOffset, (58 :> <<"N">>), << >>),
       SharedSensor(<<"w">>, "Enum2", 30129, NoOffset, (15164 :> <<"W">>), << >>) }

\* The tuples of up to MaxSensors distinct sensors, in any order
SharedTuples ==
  UNION { {q \in [1..n -> SharedPool] : \A i, j \in 1..n : i /= j => q[i] /= q[j]}
          : n \in 0..MaxSensors }

InitShared ==
  /\ InverterInit
  /\ EngineInit
  /\ CodecIdle
  /\ \E k \in SharedShifts : map_response = [data |-> SharedData(k), pos |-> 0]
  /\ map_sensors \in SharedTuples
  /\ map_incl_xx = TRUE
  /\ map_index = 1
  /\ map_result = << >>
  /\ map_pc = "loop"

\* One pass of the for loop of _map_response over sensors of every kind, or
\* its return
SharedReadStep ==
  /\ map_pc = "loop"
  /\ IF map_index > Len(map_sensors)
     THEN /\ map_pc' = "done"
          /\ UNCHANGED <<map_response, map_result, map_index>>
     ELSE LET s == map_sensors[map_index]
              r == SharedRead(s, map_response)
          IN /\ map_response' = [map_response EXCEPT !.pos = r.pos]
             /\ map_result' = Stored(map_result, s.id_, r.read.entry)
             /\ map_index' = map_index + 1
             /\ map_pc' = "loop"
  /\ UNCHANGED <<map_sensors, map_incl_xx, enginevars, codecvars>>

NextShared == SharedReadStep

SpecShared == InitShared /\ [][NextShared]_vars

\* NumTasks concurrent callers of send_command on the inverters, all under
\* one event loop
Next ==
  \/ \E t \in Tasks, d \in Devices : SendCommand(t, d, 1)
  \/ \E t \in Tasks : Resume(t)
  \/ \E t \in Tasks : \E r \in Replies(task[t].cmd) : ExecuteReply(t, r)

Spec == Init /\ [][Next]_vars

\* NumTasks concurrent callers of send_command on one inverter, under
\* several event loops
NextLoops ==
  \/ \E t \in Tasks, l \in Loops : SendCommand(t, NumDevices, l)
  \/ \E t \in Tasks : Resume(t)
  \/ \E t \in Tasks : \E r \in Replies(task[t].cmd) : ExecuteReply(t, r)

SpecLoops == Init /\ [][NextLoops]_vars

\* NumCallers concurrent callers of send_command on one inverter, under
\* several event loops, every loop running the callbacks it has scheduled
\* and every execute ending
NextLive ==
  \/ \E t \in Callers, l \in Loops : SendCommand(t, NumDevices, l)
  \/ \E t \in Callers : Resume(t)
  \/ \E t \in Callers : \E r \in Replies(task[t].cmd) : ExecuteReply(t, r)

\* The event loop runs a woken waiter (call_soon), and the wait of execute
\* for a reply ends; nothing makes a caller submit a command
Fairness ==
  \A t \in Callers :
    /\ WF_vars(Resume(t))
    /\ WF_vars(\E r \in Replies(task[t].cmd) : ExecuteReply(t, r))

SpecLive == Init /\ [][NextLive]_vars /\ Fairness

\* NumSettingTasks concurrent callers of the settings API of one inverter
NextSettings ==
  \/ \E t \in SettingTasks, sid \in RequestedIds : ReadSetting(t, NumDevices, 1, sid)
  \/ \E t \in SettingTasks, sid \in RequestedIds, v \in WriteValues :
       WriteSetting(t, NumDevices, 1, sid, v)
  \/ \E t \in SettingTasks : Resume(t)
  \/ \E t \in SettingTasks : \E r \in Replies(task[t].cmd) : ExecuteReply(t, r)

SpecSettings == Init /\ [][NextSettings]_vars

\* ------------------------------------------------------------- properties
InFlight(t) == task[t].pc = "await"

InFlightOn(d) == {t \in Tasks : InFlight(t) /\ task[t].dev = d}

\* C1: on a device whose commands were all issued under one event loop, at
\* most one command is between the start and the end of its execute
C1_SingleFlight ==
  \A d \in Devices : Cardinality(loops_used[d]) <= 1 => Cardinality(InFlightOn(d)) <= 1

C1_Witness ==
  \E d \in Devices :
    /\ Cardinality(loops_used[d]) = 1
    /\ Len(pending[d]) = 3
    /\ InFlight(pending[d][1])
    /\ task[pending[d][2]].pc = "waiting"

\* C2: on one device only the earliest submitted command that has not yet
\* completed may be executing: a later one does not start before it ended
C2_SubmissionOrder ==
  \A d \in Devices : \A j \in DOMAIN pending[d] : j > 1 => ~InFlight(pending[d][j])

\* C3: the counter equals the number of failed commands since the last
\* successful one, is 0 right after a success, and the k-th consecutive
\* failure is raised carrying k
C3_FailureCount ==
  [][/\ \A d \in Devices : consecutive_failures_count'[d] = failures_since_success'[d]
     /\ \A t \in Tasks : InFlight(t) /\ task'[t].pc = "done" =>
          LET d == task[t].dev IN
            /\ task'[t].outcome = "response" => consecutive_failures_count'[d] = 0
            /\ task'[t].outcome = "RequestFailedException" =>
                 /\ task'[t].carried = failures_since_success[d] + 1
                 /\ task'[t].carried = consecutive_failures_count'[d]]_vars

C3_Witness ==
  \E d \in Devices, t, u \in Tasks :
    /\ consecutive_failures_count[d] = 2
    /\ task[t].pc = "done" /\ task[t].outcome = "RequestFailedException"
    /\ task[t].carried = 2
    /\ task[u].pc = "done" /\ task[u].outcome = "RequestFailedException"
    /\ task[u].carried = 1

\* C4: a lock is held only while a command that took it is executing, so a
\* device with no executing command has its lock free, whatever way the
\* earlier commands ended
C4_LockReleased ==
  /\ \A id \in DOMAIN locks :
       locks[id].locked => \E t \in Tasks : InFlight(t) /\ task[t].lck = id
  /\ \A d \in Devices :
       lock[d] /= None /\ InFlightOn(d) = {} => ~locks[lock[d]].locked

C4_Witness ==
  \E d \in Devices, t, u \in Tasks :
    /\ task[t].pc = "done" /\ task[t].outcome = "OSError"
    /\ task[u].pc = "done" /\ task[u].outcome = "RequestFailedException"
    /\ lock[d] /= None /\ InFlightOn(d) = {} /\ ~locks[lock[d]].locked
    /\ Len(locks) = 2

C6_LockRebound ==
  [][\A t \in Tasks : task[t].pc = "idle" /\ task'[t].pc \in {"await", "waiting"} =>
       LET d == task'[t].dev
           l == task'[t].loop
       IN /\ running_loop'[d] = l
          /\ task'[t].lck = lock'[d]
          /\ lock[d] /= None /\ running_loop[d] /= l =>
               /\ lock'[d] \notin DOMAIN locks
               /\ locks'[lock'[d]] = [locked |-> TRUE, waiters |-> << >>]
               /\ InFlight(t)'
               /\ \A id \in DOMAIN locks : locks'[id] = locks[id]
          /\ lock[d] /= None /\ running_loop[d] = l => lock'[d] = lock[d]]_vars

C6_Witness ==
  \E d \in Devices, t, u \in Tasks :
    /\ InFlight(t) /\ task[t].dev = d /\ task[t].loop = 1
    /\ InFlight(u) /\ task[u].dev = d /\ task[u].loop = 2
    /\ lock[d] = task[u].lck /\ task[t].lck /= lock[d]
    /\ locks[task[t].lck].locked
    /\ running_loop[d] = 2

\* The devices a step acts on
Touched ==
  {task[t].dev : t \in {u \in Tasks : task'[u] /= task[u] /\ task[u].dev /= None}}
    \cup {task'[t].dev : t \in {u \in Tasks : task'[u] /= task[u] /\ task'[u].dev /= None}}

\* C7: a step of a command on one device leaves the counter, the lock, the
\* stored loop and the queue of every other device as they were
C7_NoSharedState ==
  [][/\ Cardinality(Touched) <= 1
     /\ \A e \in Devices \ Touched :
          /\ consecutive_failures_count'[e] = consecutive_failures_count[e]
          /\ lock'[e] = lock[e]
          /\ running_loop'[e] = running_loop[e]
          /\ pending'[e] = pending[e]
          /\ lock[e] /= None => locks'[lock[e]] = locks[lock[e]]]_vars

C7_Witness ==
  \E t, u \in Tasks :
    /\ InFlight(t) /\ InFlight(u)
    /\ task[t].dev = 1 /\ task[u].dev = 2
    /\ task[t].loop = task[u].loop
    /\ consecutive_failures_count[1] = 1
    /\ consecutive_failures_count[2] = 0

\* C10: read_setting and write_setting with an id that is not a setting raise
\* ValueError at once: no command is built, no lock is created, taken or
\* queued for, and no counter or other task changes
C10_UnknownSetting ==
  [][\A t \in Tasks, d \in Devices, l \in Loops, sid \in RequestedIds \ DOMAIN Settings :
       ReadSetting(t, d, l, sid) \/ (\E v \in WriteValues : WriteSetting(t, d, l, sid, v)) =>
         /\ task'[t].pc = "done"
         /\ task'[t].outcome = "ValueError"
         /\ task'[t].cmd = NoCommand
         /\ task'[t].lck = None
         /\ \A u \in Tasks \ {t} : task'[u] = task[u]
         /\ UNCHANGED <<lock, running_loop, locks, consecutive_failures_count, pending,
                        loops_used>>]_vars

C10_Witness ==
  \E t, u \in Tasks :
    /\ task[t].pc = "done" /\ task[t].outcome = "ValueError"
    /\ task[u].pc = "idle"
    /\ locks = << >>
    /\ \A d \in Devices : lock[d] = None /\ consecutive_failures_count[d] = 0

\* C17: write_setting of a known setting sends one command, a single
\* register write with the value when the encoded value has 2 bytes or
\* fewer, a multi register write with the raw bytes when it has more; when
\* the value cannot be encoded the call raises and sends nothing
C17_WriteCommandKind ==
  [][\A t \in SettingTasks, d \in Devices, l \in Loops,
        sid \in RequestedIds \cap DOMAIN Settings, v \in WriteValues :
       WriteSetting(t, d, l, sid, v) =>
         LET raw == EncodeValue(Settings[sid], v) IN
           IF raw = << >>
           THEN /\ task'[t].pc = "done"
                /\ task'[t].outcome \in {"ValueError", "OverflowError"}
                /\ task'[t].cmd = NoCommand
                /\ UNCHANGED <<locks, pending>>
           ELSE /\ pending'[d] = Append(pending[d], t)
                /\ \A e \in Devices \ {d} : pending'[e] = pending[e]
                /\ Len(raw) <= 2 =>
                     /\ task'[t].cmd.kind = "ModbusWriteCommand"
                     /\ task'[t].cmd.arg = <<FromBytesSigned(raw)>>
                /\ Len(raw) > 2 =>
                     /\ task'[t].cmd.kind = "ModbusWriteMultiCommand"
                     /\ task'[t].cmd.arg = raw]_vars

C17_Witness ==
  \E t, u \in SettingTasks :
    /\ task[t].pc = "await" /\ task[t].op = "write_setting"
    /\ task[t].cmd.kind = "ModbusWriteCommand" /\ task[t].cmd.arg = <<50>>
    /\ task[u].op = "write_setting" /\ task[u].pc \in {"waiting", "await"}
    /\ task[u].cmd.kind = "ModbusWriteMultiCommand" /\ Len(task[u].cmd.arg) = 6

\* The sensors the batch includes, and those among them whose decode fails
IncludedSensors ==
  {map_sensors[i] : i \in {j \in DOMAIN map_sensors : Included(map_sensors[j], map_incl_xx)}}

DecodeFails(s) == SensorRead(s, map_response.data) = << >>

\* C8: a finished batch has one entry per included sensor id: None where the
\* sensor's decode raised ValueError, the decoded value for every other one
C8_BatchSurvivesDecodeError ==
  map_pc = "done" =>
    /\ map_pc /= "error"
    /\ DOMAIN map_result = {s.id_ : s \in IncludedSensors}
    /\ \A s \in IncludedSensors :
         IF DecodeFails(s) THEN map_result[s.id_].is_none
         ELSE map_result[s.id_] =
                [is_none |-> FALSE, value |-> SensorRead(s, map_response.data)]

C8_Witness ==
  /\ map_pc = "done"
  /\ Len(map_sensors) = 3
  /\ DecodeFails(map_sensors[1])
  /\ map_result[map_sensors[1].id_].is_none
  /\ \E s \in IncludedSensors : ~DecodeFails(s) /\ ~map_result[s.id_].is_none

\* The sensors the loop has passed
Passed == {map_sensors[i] : i \in {j \in DOMAIN map_sensors : j < map_index}}

\* C9 as claimed: the decode failure of an included sensor whose id does not
\* start with xx ends the batch with the error and leaves no None entry
C9_OnlyUnknownSwallowed ==
  \A s \in Passed \cap IncludedSensors :
    DecodeFails(s) /\ ~IsUnknownId(s.id_) => map_pc = "error" /\ s.id_ \notin DOMAIN map_result

\* C9 as amended: the batch never ends with a ValueError; the decode failure
\* of any included sensor, also one whose id does not start with xx, leaves
\* None under its id
C9_EveryDecodeErrorSwallowed ==
  /\ map_pc /= "error"
  /\ \A s \in Passed \cap IncludedSensors :
       DecodeFails(s) => s.id_ \in DOMAIN map_result /\ map_result[s.id_] = NoneEntry

C9_Witness ==
  /\ map_pc = "done"
  /\ \E s \in IncludedSensors :
       DecodeFails(s) /\ ~IsUnknownId(s.id_) /\ map_result[s.id_] = NoneEntry
  /\ \E s \in IncludedSensors : IsUnknownId(s.id_) /\ ~map_result[s.id_].is_none

\* The domains the composite fields are declared with
DeclaredDomain(layout, name) ==
  CASE name \in {"start_h", "end_h"} -> 0..23 \cup {48}
    [] name \in {"start_m", "end_m"} -> 0..59
    [] name = "day_bits" -> 0..127
    [] name = "on_off" -> OnOffCodes(layout)
    [] name = "power" -> -100..100
    [] name = "soc" -> 0..100
    [] name = "import_power" -> 0..(500 * 100)

\* C11: read_value of a composite on a full-length buffer either returns the
\* composite with every field in its declared domain or raises ValueError
\* naming the field; nothing else happens
C11_DecodeAllOrNothing ==
  codec_call.op = "read_value" =>
    \/ /\ codec_result.error = "none"
       /\ \A i \in DOMAIN Fields(codec_call.layout) :
            LET n == Fields(codec_call.layout)[i].name
            IN n \in DOMAIN codec_result.obj
               /\ codec_result.obj[n] \in DeclaredDomain(codec_call.layout, n)
    \/ /\ codec_result.error = "ValueError"
       /\ codec_result.field \in {Fields(codec_call.layout)[i].name :
                                    i \in DOMAIN Fields(codec_call.layout)}

\* C13: a decoded eco mode of either layout is a full-time charge exactly
\* when it runs 00:00-23:59 on all days, its on/off code is not the off code
\* 0 and its power is negative; a full-time discharge likewise with a
\* positive power
C13_FullTimeModes ==
  codec_call.op = "read_value" /\ codec_call.layout \in EcoLayouts
    /\ codec_result.error = "none" =>
      LET o == codec_result.obj
          always == /\ o["start_h"] = 0 /\ o["start_m"] = 0
                    /\ o["end_h"] = 23 /\ o["end_m"] = 59
                    /\ o["day_bits"] = 127 /\ o["on_off"] /= 0
      IN /\ codec_result.charge <=> (always /\ o["power"] < 0)
         /\ codec_result.discharge <=> (always /\ o["power"] > 0)

\* C14: the eco mode v1 encoded by encode_charge(P) for P in 1..100 decodes
\* to 00:00-23:59 on all days with power -P and is a full-time charge; that
\* of encode_discharge(P) decodes to power P and is a full-time discharge
C14_RoundTripV1 ==
  codec_call.op = "encode_decode" /\ codec_call.layout = "EcoModeV1"
    /\ codec_call.power \in 1..100 =>
      LET o == codec_result.obj IN
        /\ codec_result.error = "none"
        /\ o["start_h"] = 0 /\ o["start_m"] = 0 /\ o["end_h"] = 23 /\ o["end_m"] = 59
        /\ o["day_bits"] = 127
        /\ codec_call.mode = "charge" => o["power"] = -codec_call.power /\ codec_result.charge
        /\ codec_call.mode = "discharge" =>
             o["power"] = codec_call.power /\ codec_result.discharge

C14_Witness ==
  /\ codec_call.op = "encode_decode" /\ codec_call.layout = "EcoModeV1"
  /\ codec_call.mode = "charge" /\ codec_call.power = 50
  /\ codec_result.raw = <<0, 0, 23, 59, 255, 206, 255, 127>>
  /\ codec_result.error = "none" /\ codec_result.obj["power"] = -50
  /\ codec_result.charge

\* C15: the eco mode v2 encoded for a full-time discharge at P in 1..100
\* with state of charge S decodes to power P and soc S and is a full-time
\* discharge
C15_RoundTripV2Discharge ==
  codec_call.op = "encode_decode" /\ codec_call.layout = "EcoModeV2"
    /\ codec_call.mode = "discharge" /\ codec_call.power \in 1..100 =>
      /\ codec_result.error = "none"
      /\ codec_result.obj["power"] = codec_call.power
      /\ codec_result.obj["soc"] = codec_call.soc
      /\ codec_result.discharge

\* C16: the conversion of a decoded eco mode to the other layout copies
\* start, end, power and day bits, gives an on/off code of the target layout
\* ({0,-1} for v1, {0,-1,85} for v2) and soc 100 for v1 to v2, and leaves
\* the source as it was
C16_ConversionCopies ==
  codec_call.op = "convert" =>
    LET src == codec_result.source
        res == codec_result.result
    IN /\ \A n \in {"start_h", "start_m", "end_h", "end_m", "power", "day_bits"} :
            res[n] = src[n]
       /\ codec_call.layout = "EcoModeV1" => res["on_off"] \in {0, -1, 85} /\ res["soc"] = 100
       /\ codec_call.layout = "EcoModeV2" => res["on_off"] \in {0, -1}
       /\ codec_result.self = src

C16_Witness ==
  /\ codec_call.op = "convert" /\ codec_call.layout = "EcoModeV2"
  /\ codec_result.source["on_off"] = 85 /\ codec_result.result["on_off"] = 0
  /\ codec_result.source["power"] = -50 /\ codec_result.result["power"] = -50

\* C12: a fixed-width sensor whose offset + size reaches past the end of the
\* response fails to decode; it never yields a value
C12_ShortReadFails ==
  codec_call.op = "read"
    /\ SeekPosition(codec_call.offset) + SizeOf(codec_call.class) > Len(codec_call.data) =>
      codec_result.value = << >>

\* C18: for every scalar codec with encode_value, the bytes of an encoded
\* value decode to that value, and the value decoded from a register
\* content encodes to that content again
C18_ScalarRoundTrip ==
  /\ codec_call.op = "encode_read" => codec_result.value = codec_call.value
  /\ codec_call.op = "reencode" /\ codec_result.value /= << >> =>
       codec_result.raw = codec_call.raw

\* TRUE when bit i is set in the big-endian bytes bs
BitSet(bs, i) == (bs[Len(bs) - (i \div 8)] \div 2 ^ (i % 8)) % 2 = 1

\* The text the claims expect for the bits i..31 of bs: the labels of the
\* set bits in ascending order, "err" and the index for a bit without label,
\* with ", " between them
RECURSIVE ExpectedText(_, _, _)
ExpectedText(bs, labels, i) ==
  IF i > 31 THEN << >>
  ELSE LET rest == ExpectedText(bs, labels, i + 1)
           own == IF i \in DOMAIN labels THEN labels[i] ELSE <<"e", "r", "r">> \o Digits(i)
       IN IF ~BitSet(bs, i) THEN rest
          ELSE IF rest = << >> THEN own
          ELSE own \o <<",", " ">> \o rest

\* C19: the bitmap decode of a 32 bit register value is the text of the
\* labels of exactly its set bits 0..31 in ascending order, err and the index
\* for a bit without label, joined by ", "; no bit set gives the empty text
C19_BitmapDecode ==
  codec_call.op = "bitmap4" =>
    /\ codec_result.error = "none"
    /\ codec_result.text = ExpectedText(codec_call.data, codec_call.labels, 0)
    /\ codec_call.data = <<0, 0, 0, 0>> => codec_result.text = << >>

C19_Witness ==
  /\ codec_call.op = "bitmap4"
  /\ codec_call.data = <<0, 0, 0, 5>>
  /\ codec_call.labels = (0 :> <<"A">>) @@ (2 :> <<"C">>)
  /\ codec_result.text = <<"A", ",", " ", "C">>

\* C20: a split bitmap sensor decodes H * 65536 + L, H and L the unsigned
\* contents of its high and low register: bit i of L gives label i, bit i of
\* H label 16 + i
C20_SplitBitmapJoined ==
  codec_call.op = "bitmap22" =>
    /\ codec_result.error = "none"
    /\ codec_result.text =
         ExpectedText(codec_call.high \o codec_call.low, codec_call.labels, 0)

\* The names of the days whose bit (bit 0 = Sun ... bit 6 = Sat) is set in
\* mask, from day i on, each after the first one preceded by ","
RECURSIVE ExpectedDays(_, _, _)
ExpectedDays(mask, i, first) ==
  IF i > 6 THEN << >>
  ELSE IF (mask \div (2 ^ i)) % 2 = 1
       THEN (IF first THEN << >> ELSE <<",">>) \o <<DAY_NAMES[i + 1]>>
              \o ExpectedDays(mask, i + 1, FALSE)
       ELSE ExpectedDays(mask, i + 1, first)

\* C21: for every bitmask in 0..127 decode_day_of_week returns without error
\* the names of exactly the set bits, Sunday first, joined by "," with no
\* spaces, and the empty string for 0
C21_DayOfWeekDecode ==
  (codec_call.op = "days" /\ codec_call.data \in 0..127)
    => /\ codec_result.error = "none"
       /\ codec_result.days = ExpectedDays(codec_call.data, 0, TRUE)
       /\ (codec_call.data = 0 => codec_result.days = << >>)

\* C21 witness: the bitmask 0b0000011 has been decoded to "Sun,Mon"
C21_Witness ==
  /\ codec_call.op = "days"
  /\ codec_call.data = 3
  /\ codec_result.days = <<"Sun", ",", "Mon">>

\* C22: a value returned by an earlier read of a sensor reads, after any
\* later read or encode of the same sensor, as it did when it was returned
\* (the sensor's attributes are not changed by read, read_value, encode_value)
C22_SensorImmutable ==
  held.returned => sensor.attrs = held.seen

\* sensor.read of s alone on a fresh buffer with the same bytes
ReadAlone(s) == SharedRead(s, [data |-> map_response.data, pos |-> 0]).read.entry

\* C24: whatever the sensors of a batch and their order, the value every
\* sensor got from the shared buffer is the value it gets when it is read
\* alone on a fresh buffer
C24_OrderIndependent ==
  map_pc \in {"loop", "done"} =>
    \A i \in 1..Len(map_sensors) :
       i < map_index => /\ map_sensors[i].id_ \in DOMAIN map_result
                        /\ map_result[map_sensors[i].id_] = ReadAlone(map_sensors[i])

\* C24 witness: a batch of three sensors has been read, a calculated one
\* first, then a scalar on lower registers than the cursor left behind, then
\* an enum, each with a value
C24_Witness ==
  /\ map_pc = "done"
  /\ Len(map_sensors) = 3
  /\ map_sensors[1].class = "Calculated"
  /\ map_sensors[2].class = "Voltage"
  /\ map_sensors[3].class = "Enum2"
  /\ map_response.pos = 60
  /\ \A i \in 1..3 : ~map_result[map_sensors[i].id_].is_none
  /\ map_result[<<"v">>].value = <<7 * 256 + 8, 10>>

\* C25: the off pattern of every composite sensor has the length of its
\* layout, encode_value returns it unchanged, and the composite decoded from
\* it is neither a full-time charge nor a full-time discharge
C25_EncodeOffValid ==
  codec_call.op = "sensor_encode_off" =>
    /\ Len(codec_call.data) = LayoutSize(sensor.layout)
    /\ codec_result.error = "none"
    /\ codec_result.raw = codec_call.data
    /\ sensor.layout \in EcoLayouts =>
         /\ ~is_eco_charge_mode(sensor.layout, sensor.attrs)
         /\ ~is_eco_discharge_mode(sensor.layout, sensor.attrs)

\* The layout as_eco_mode_v2 / as_eco_mode_v1 converts the layout to
OtherLayout(layout) == IF layout = "EcoModeV1" THEN "EcoModeV2" ELSE "EcoModeV1"

\* C26: the conversion of a validly decoded eco mode to the other layout has
\* the same is_eco_charge_mode() and is_eco_discharge_mode() as its source
C26_ConversionKeepsMode ==
  codec_call.op = "convert" =>
    LET from == codec_call.layout
        to == OtherLayout(from)
    IN /\ is_eco_charge_mode(to, codec_result.result)
            = is_eco_charge_mode(from, codec_result.source)
       /\ is_eco_discharge_mode(to, codec_result.result)
            = is_eco_discharge_mode(from, codec_result.source)

\* C26 witness: a v2 composite running 00:00-23:59 on all days with on/off
\* code 85 and a charging power has been converted to v1; neither is a
\* full-time charge
C26_Witness ==
  /\ codec_call.op = "convert" /\ codec_call.layout = "EcoModeV2"
  /\ FullTime(codec_result.source) /\ codec_result.source["day_bits"] = 127
  /\ codec_result.source["on_off"] = 85 /\ codec_result.source["power"] < 0
  /\ ~is_eco_charge_mode("EcoModeV2", codec_result.source)
  /\ ~is_eco_charge_mode("EcoModeV1", codec_result.result)

\* C27: every sensor documented as encoded in 4 bytes declares the width 4,
\* and that is the number of bytes a read of it consumes
C27_FourByteWidth ==
  codec_call.op = "read_wide" =>
    /\ codec_result.size_ = 4
    /\ codec_result.size_ = codec_result.consumed

\* C23: every command submitted to a device, whether it took the lock at
\* once or queued for it, eventually completes with a response or a failure
C23_EveryCommandCompletes ==
  \A t \in Callers :
    (task[t].pc \in {"waiting", "woken", "await"})
      ~> (task[t].pc = "done" /\ task[t].outcome /= "none")

\* C23 witness: a command has failed with RequestFailedException and the
\* command queued behind it has been woken by the release of the lock
C23_Witness ==
  \E t, u \in Callers :
    /\ task[u].pc = "done" /\ task[u].outcome = "RequestFailedException"
    /\ task[t].pc = "woken"

====
